---- MODULE Spec2Model ----
(***************************************************************************)
(* A model of the two command-line tools of plex-sync-dates:               *)
(*   merge_albums.py  finds duplicate album entries and merges them after  *)
(*                    asking the operator;                                 *)
(*   sync_dates.py    sets an item's "date added" to its file's creation   *)
(*                    date.                                                *)
(* The remote catalog is the environment: what a listing returns, whether  *)
(* a remote call fails and what the operator types are drawn with \E at    *)
(* the step that makes the call.  Strings are tuples of one-character      *)
(* strings, so that lower(), strip() and the glob match are computed.      *)
(***************************************************************************)
EXTENDS Integers, Sequences, FiniteSets, TLC

(***************************************************************************)
(* Bounds of the model.                                                    *)
(***************************************************************************)
MaxKey == 3        \* ratingKeys of a listing are 1..MaxKey
MaxTracks == 2     \* an album has 0..MaxTracks tracks
MaxGroups == 2     \* duplicate groups in one section of the merge run
NumSections == 2   \* library sections of a run

MaxLimit == 2      \* --limit is absent (0) or 1..MaxLimit
MaxExamined == 3   \* items a reconciliation run takes from its sections
MaxItems == 2      \* ratingKeys of the items of the catalog
MaxTime == 2       \* birth and modification times of a probed file

(***************************************************************************)
(* Strings.                                                                *)
(***************************************************************************)
UpperChars == <<"A", "B", "X", "Y", "Z", "N", "Q">>
LowerChars == <<"a", "b", "x", "y", "z", "n", "q">>
Whitespace == {" "}

\* str.lower() on one character
lowerChar(c) ==
  IF \E i \in 1..Len(UpperChars) : UpperChars[i] = c
  THEN LowerChars[CHOOSE i \in 1..Len(UpperChars) : UpperChars[i] = c]
  ELSE c

\* str.lower()
lower(s) == [i \in 1..Len(s) |-> lowerChar(s[i])]

RECURSIVE lstrip(_)
lstrip(s) ==
  IF s # <<>> /\ Head(s) \in Whitespace THEN lstrip(Tail(s)) ELSE s

RECURSIVE rstrip(_)
rstrip(s) ==
  IF s # <<>> /\ s[Len(s)] \in Whitespace
  THEN rstrip(SubSeq(s, 1, Len(s) - 1))
  ELSE s

\* str.strip()
strip(s) == rstrip(lstrip(s))

\* c in pattern
HasChar(s, c) == \E i \in 1..Len(s) : s[i] = c

\* fnmatch.fnmatch on an already lower-cased name and pattern.  "*" is any
\* run of characters, "?" exactly one; a "[" that no "]" closes is literal
\* (character classes are not among the patterns of PatternPool).
RECURSIVE fnmatch(_, _)
fnmatch(s, p) ==
  IF p = <<>> THEN s = <<>>
  ELSE IF Head(p) = "*"
       THEN fnmatch(s, Tail(p)) \/ (s # <<>> /\ fnmatch(Tail(s), p))
  ELSE IF Head(p) = "?"
       THEN s # <<>> /\ fnmatch(Tail(s), Tail(p))
  ELSE s # <<>> /\ Head(s) = Head(p) /\ fnmatch(Tail(s), Tail(p))

match_pattern(title, pattern) ==
  LET wrapped == IF ~(HasChar(pattern, "*") \/ HasChar(pattern, "?")
                       \/ HasChar(pattern, "["))
                 THEN <<"*">> \o pattern \o <<"*">>
                 ELSE pattern
  IN fnmatch(lower(title), lower(wrapped))


(***************************************************************************)
(* State.  pc and sec are the position of the running tool's main();       *)
(* title_pattern and album_pattern are its --title and --album arguments   *)
(* (the empty string stands for an absent one: both are falsy).            *)
(***************************************************************************)
VARIABLES
  pc,              \* position of main()
  sec,             \* index of the section of the for loop over sections
  nsections,       \* number of sections the run iterates over
  title_pattern,   \* args.title
  album_pattern,   \* args.album
  \* merge_albums.main
  duplicates,      \* the groups find_duplicates returned for this section
  gi,              \* index of the group of the for loop over duplicates
  primary,         \* choose_primary's first result
  others,          \* choose_primary's second result
  answer,          \* what prompt_merge returned
  merged,          \* the section's merged counter
  mskipped,        \* the section's skipped counter (merge tool)
  quit_requested,  \* merge_albums.main's quit flag
  hinted,          \* "Please enter y, n, or q." was printed at this prompt
  \* the merge tool seen from outside
  lastCall,        \* the last remote merge call of this section
  ncalls,          \* remote merge calls issued in this section
  groupCalls,      \* remote merge calls issued for the group now presented
  okCalls,         \* remote merge calls of this section that succeeded
  declined,        \* groups of this section answered n or empty
  npresented,      \* groups presented to the operator in this section
  typed,           \* the line that ended the prompt of the group at hand
  quitSeen,        \* the operator answered q, or input ended
  trackFailSeen,   \* a track listing failed during the run
  lastSummary,     \* the last "Merged: .., Skipped: .." line printed
  noMatch,         \* --title matched no artist of the section at hand
  \* a single call of choose_primary or of find_duplicates
  in_albums,       \* choose_primary's argument
  split,           \* what choose_primary returned
  in_artists,      \* what section.all() returns to find_duplicates
  found,           \* what find_duplicates returned
  in_part,         \* file_birthtime's argument: the path and its file
  birth,           \* what file_birthtime returned
  in_probe,        \* get_file_mtime's arguments, and the calls that fail
  probe,           \* what get_file_mtime returned
  \* sync_dates.main
  dry_run,         \* args.dry_run
  limit,           \* args.limit (0: absent)
  media_roots,     \* the MEDIA_ROOTS prefixes
  sectype,         \* section.type of the section at hand
  anyTop,          \* iter_items: top_level is not empty after the filter
  seen,            \* iter_items: ratingKeys of the albums yielded
  item,            \* the item of the for loop over iter_items
  file_mtime,      \* get_file_mtime's first result (NoTime: None)
  detail,          \* get_file_mtime's second result
  updated,         \* the run's counters
  skipped,
  errors,
  done,            \* the limit was reached
  \* the reconciliation run seen from outside
  wrote,           \* the editAddedAt call issued for the item last examined
  examined,        \* items taken from iter_items in this run
  summary,         \* the "Done. Updated: ..." line, once printed
  run,             \* 1, or 2 when the tool is run again
  files,           \* per ratingKey: the media of an item of the catalog
  added,           \* per ratingKey: the addedAt the catalog holds
  reconciled,      \* per item: the date its last examination left it with
  exc,             \* the call that raised in the step just taken ("": none)
  reported,        \* UPDATE / WOULD UPDATE lines printed in this run
  nwrites          \* editAddedAt calls issued in this run

runVars == <<pc, sec, nsections, title_pattern, album_pattern>>
mergeVars == <<duplicates, gi, primary, others, answer, merged, mskipped,
               quit_requested, hinted>>
mergeEnv == <<lastCall, ncalls, groupCalls, okCalls, declined, npresented,
              typed, quitSeen, trackFailSeen, lastSummary, noMatch>>
callVars == <<in_albums, split, in_artists, found, in_part, birth, in_probe,
              probe>>
syncVars == <<dry_run, limit, media_roots, sectype, anyTop, seen, item,
              file_mtime, detail, updated, skipped, errors, done>>
syncEnv == <<wrote, examined, summary, run, files, added, reconciled, exc,
             nwrites, reported>>
vars == <<runVars, mergeVars, mergeEnv, callVars, syncVars, syncEnv>>

(***************************************************************************)
(* Albums.  ntracks is len(album.tracks()); tracksFail says that listing   *)
(* the album's tracks raises.                                              *)
(***************************************************************************)
Album(k, p, t, n, f) ==
  [ratingKey |-> k, parentTitle |-> p, title |-> t, ntracks |-> n,
   tracksFail |-> f]

NoAlbum == Album(0, <<>>, <<>>, 0, FALSE)

ratingKeys(albums) == [i \in 1..Len(albums) |-> albums[i].ratingKey]

(***************************************************************************)
(* choose_primary: sorted() is stable and ascending by sort_key.           *)
(***************************************************************************)
\* sort_key with the sign of the track count lost: fewest tracks first
sort_key_ascending(a) == <<a.ntracks, a.ratingKey>>

sort_key(a) == <<0 - a.ntracks, a.ratingKey>>

\* tuple comparison x < y
TupleLess(x, y) == x[1] < y[1] \/ (x[1] = y[1] /\ x[2] < y[2])

\* a stable insertion: behind every element whose key is not greater
RECURSIVE insert(_, _)
insert(sorted_albums, a) ==
  IF sorted_albums = <<>> THEN <<a>>
  ELSE IF TupleLess(sort_key(a), sort_key(Head(sorted_albums)))
       THEN <<a>> \o sorted_albums
       ELSE <<Head(sorted_albums)>> \o insert(Tail(sorted_albums), a)

RECURSIVE sorted(_)
sorted(albums) ==
  IF albums = <<>> THEN <<>>
  ELSE insert(sorted(SubSeq(albums, 1, Len(albums) - 1)), albums[Len(albums)])

\* a.tracks() is called in sort_key with no handler around it: a listing
\* that raises ends choose_primary with that exception.
choose_primary(albums) ==
  IF \E i \in 1..Len(albums) : albums[i].tracksFail
  THEN [raised |-> TRUE, primary |-> NoAlbum, others |-> <<>>]
  ELSE LET sorted_albums == sorted(albums)
       IN [raised |-> FALSE, primary |-> sorted_albums[1],
           others |-> Tail(sorted_albums)]

(***************************************************************************)
(* find_duplicates.  artists is what section.all() returned: a sequence of *)
(* [title, albums], albums being what artist.albums() returns.             *)
(***************************************************************************)
\* the albums the two nested loops visit, in their order
RECURSIVE visited(_, _)
visited(artists, pattern) ==
  IF artists = <<>> THEN <<>>
  ELSE SelectSeq(Head(artists).albums,
                 LAMBDA album : ~(pattern # <<>> /\ ~match_pattern(album.title, pattern)))
       \o visited(Tail(artists), pattern)

\* group_key with the two lower() calls lost
group_key_caseSensitive(album) == <<album.parentTitle, album.title>>

group_key(album) == <<lower(album.parentTitle), lower(album.title)>>

\* groups[key].append(album) over the visited albums; a dict keeps the order
\* in which its keys were first inserted
RECURSIVE group_albums(_, _)
group_albums(groups, albums) ==
  IF albums = <<>> THEN groups
  ELSE LET album == Head(albums)
           key == group_key(album)
           hit == {i \in 1..Len(groups) : groups[i].key = key}
       IN group_albums(
            IF hit = {}
            THEN Append(groups, [key |-> key, albums |-> <<album>>])
            ELSE [groups EXCEPT ![CHOOSE i \in hit : TRUE].albums = Append(@, album)],
            Tail(albums))

min_group_len == 1   \* len(albums) > 1

find_duplicates(artists, title_pat, album_pat) ==
  LET matched == IF title_pat # <<>>
                 THEN SelectSeq(artists, LAMBDA a : match_pattern(a.title, title_pat))
                 ELSE artists
      groups == group_albums(<<>>, visited(matched, album_pat))
      kept == SelectSeq(groups, LAMBDA g : Len(g.albums) > min_group_len)
  IN IF title_pat # <<>> /\ matched = <<>>
     THEN <<>>
     ELSE [i \in 1..Len(kept) |-> kept[i].albums]


(***************************************************************************)
(* The inputs of the merge run.                                            *)
(***************************************************************************)
\* (--title, --album) of a run
ArgPool ==
  {<<(<<>>), (<<>>)>>, <<(<<"a">>), (<<>>)>>, <<(<<"z">>), (<<>>)>>,
   <<(<<>>), (<<"x">>)>>}

\* What section.all() and artist.albums() return for a section with ng
\* duplicate groups: group 1 is two entries of one artist, the later groups
\* lie across two artists whose names differ in case, the last group has a
\* third entry; one more album is alone under its title.  Album f (if any)
\* is the one whose track listing raises, nt spreads the track counts
\* (nt = 0: all equal).
Listing(ng, f, nt) ==
  LET n(k) == (k * nt) % (MaxTracks + 1)
      lo(g) == <<LowerChars[2 + g]>>
      up(g) == <<UpperChars[2 + g]>>
      a1 == [title |-> <<"a">>,
             albums |->
               (IF ng >= 1
                THEN <<Album(1, <<"a">>, lo(1), n(1), f = 1),
                       Album(2, <<"a">>, up(1), n(2), f = 2)>>
                ELSE <<>>)
               \o [i \in 1..(ng - 1) |->
                     Album(2 * i + 1, <<"a">>, lo(i + 1), n(2 * i + 1),
                           f = 2 * i + 1)]
               \o <<Album(2 * ng + 1, <<"a">>, <<"b">>, n(2 * ng + 1), FALSE)>>]
      a2 == [title |-> <<"A">>,
             albums |->
               [i \in 1..(ng - 1) |->
                  Album(2 * i + 2, <<"A">>, up(i + 1), n(2 * i + 2),
                        f = 2 * i + 2)]
               \o (IF ng >= 1
                   THEN <<Album(2 * ng + 2, <<"A">>, lo(ng), n(2 * ng + 2),
                                f = 2 * ng + 2)>>
                   ELSE <<>>)]
  IN <<a1, a2>>

SectionPool ==
  {Listing(ng, f, nt) : ng \in 0..MaxGroups, f \in 0..(2 * MaxGroups + 2),
                        nt \in 0..MaxTracks}

\* the lines the operator may type
InputPool ==
  {<<"y">>, <<"Y">>, <<" ", "y", " ">>, <<"n">>, <<"N">>, <<>>, <<" ">>,
   <<"q">>, <<"Q">>, <<"x">>, <<"y", "y">>}

EndOfInput == <<"EOF">>

NoCall == [target |-> 0, keys |-> <<>>, ok |-> FALSE]
NoSummary == [merged |-> 0 - 1, skipped |-> 0 - 1]

NoSplit == [raised |-> FALSE, primary |-> NoAlbum, others |-> <<>>]

\* no single call is being made
NoPart == [file |-> <<>>, exists |-> FALSE, ret |-> 0, stx_mask |-> 0,
           btime |-> 0, mtime |-> 0]
NoBirth == [raised |-> FALSE, time |-> 0 - 1]

NoFails == [listing |-> FALSE, down |-> {}]
NoProbeArgs == [type |-> "", tracks |-> <<>>, parts |-> <<>>, roots |-> <<>>,
                fails |-> NoFails]
NoProbe == [raised |-> FALSE, time |-> 0 - 1,
            detail |-> [text |-> "", n |-> 0, file |-> <<>>]]

\* neither file_birthtime nor get_file_mtime is being called on its own
ProbeIdle ==
  /\ in_part = NoPart
  /\ birth = NoBirth
  /\ in_probe = NoProbeArgs
  /\ probe = NoProbe

CallIdle ==
  /\ in_albums = <<>>
  /\ split = NoSplit
  /\ in_artists = <<>>
  /\ found = <<>>
  /\ ProbeIdle

\* the merge tool is not running
MergeIdle ==
  /\ duplicates = <<>>
  /\ gi = 0
  /\ primary = NoAlbum
  /\ others = <<>>
  /\ answer = <<>>
  /\ merged = 0
  /\ mskipped = 0
  /\ quit_requested = FALSE
  /\ hinted = FALSE
  /\ lastCall = NoCall
  /\ ncalls = 0
  /\ groupCalls = 0
  /\ okCalls = 0
  /\ declined = 0
  /\ npresented = 0
  /\ typed = <<>>
  /\ quitSeen = FALSE
  /\ trackFailSeen = FALSE
  /\ lastSummary = NoSummary
  /\ noMatch = FALSE

NoTime == -1   \* None where a timestamp or a date is expected
NoItem == [ratingKey |-> 0, type |-> "", addedAt |-> NoTime]
NoWrite == [ts |-> NoTime, ok |-> FALSE]
NoCounts == [updated |-> NoTime, skipped |-> NoTime, errors |-> NoTime]
Detail(text, n, file) == [text |-> text, n |-> n, file |-> file]
NoDetail == Detail("", 0, <<>>)

\* the reconciliation tool is not running
SyncIdle ==
  /\ dry_run = FALSE
  /\ limit = 0
  /\ media_roots = <<>>
  /\ sectype = ""
  /\ anyTop = FALSE
  /\ seen = {}
  /\ item = NoItem
  /\ file_mtime = NoTime
  /\ detail = NoDetail
  /\ updated = 0
  /\ skipped = 0
  /\ errors = 0
  /\ done = FALSE
  /\ wrote = NoWrite
  /\ examined = 0
  /\ summary = NoCounts
  /\ run = 0
  /\ files = <<>>
  /\ added = <<>>
  /\ reconciled = <<>>
  /\ exc = ""
  /\ reported = 0
  /\ nwrites = 0

MergeInit ==
  /\ pc = "section"
  /\ sec = 1
  /\ nsections \in 1..NumSections
  /\ \E a \in ArgPool : title_pattern = a[1] /\ album_pattern = a[2]
  /\ CallIdle
  /\ SyncIdle
  /\ duplicates = <<>>
  /\ gi = 0
  /\ primary = NoAlbum
  /\ others = <<>>
  /\ answer = <<>>
  /\ merged = 0
  /\ mskipped = 0
  /\ quit_requested = FALSE
  /\ hinted = FALSE
  /\ lastCall = NoCall
  /\ ncalls = 0
  /\ groupCalls = 0
  /\ okCalls = 0
  /\ declined = 0
  /\ npresented = 0
  /\ typed = <<>>
  /\ quitSeen = FALSE
  /\ trackFailSeen = FALSE
  /\ lastSummary = NoSummary
  /\ noMatch = FALSE

\* for section in sections: find_duplicates; "No duplicates found." and
\* continue, or the counters are set for the loop over the groups
StartSection ==
  /\ pc = "section"
  /\ sec <= nsections
  /\ \E artists \in SectionPool :
       /\ LET d == find_duplicates(artists, title_pattern, album_pattern)
          IN IF d = <<>>
             THEN /\ sec' = sec + 1
                  /\ pc' = "section"
                  /\ UNCHANGED <<duplicates, gi, quit_requested, merged,
                                 mskipped>>
             ELSE /\ duplicates' = d
                  /\ gi' = 1
                  /\ quit_requested' = FALSE
                  /\ merged' = 0
                  /\ mskipped' = 0
                  /\ pc' = "group"
                  /\ sec' = sec
       /\ noMatch' =
            /\ title_pattern # <<>>
            /\ \A i \in 1..Len(artists) :
                 ~match_pattern(artists[i].title, title_pattern)
  /\ okCalls' = 0
  /\ declined' = 0
  /\ npresented' = 0
  /\ ncalls' = 0
  /\ lastCall' = NoCall
  /\ UNCHANGED <<nsections, title_pattern, album_pattern, primary, others,
                 answer, hinted, groupCalls, typed, quitSeen, trackFailSeen,
                 lastSummary>>

\* section.all() or artist.albums() raises: nothing in main catches it
ListingFails ==
  /\ pc = "section"
  /\ sec <= nsections
  /\ pc' = "crashed"
  /\ UNCHANGED <<sec, nsections, title_pattern, album_pattern, mergeVars,
                 mergeEnv>>

\* the loop over the sections is exhausted
MergeExit ==
  /\ pc = "section"
  /\ sec > nsections
  /\ pc' = "exit"
  /\ UNCHANGED <<sec, nsections, title_pattern, album_pattern, mergeVars,
                 mergeEnv>>

\* primary, others = choose_primary(group), then prompt_merge prints the
\* group (it lists each album's tracks once more, with no handler either)
PresentGroup ==
  /\ pc = "group"
  /\ LET cp == choose_primary(duplicates[gi])
     IN IF cp.raised
        THEN /\ pc' = "crashed"
             /\ trackFailSeen' = TRUE
             /\ UNCHANGED <<primary, others, npresented, groupCalls, hinted>>
        ELSE /\ primary' = cp.primary
             /\ others' = cp.others
             /\ npresented' = npresented + 1
             /\ groupCalls' = 0
             /\ hinted' = FALSE
             /\ pc' = "prompt"
             /\ UNCHANGED trackFailSeen
  /\ UNCHANGED <<sec, nsections, title_pattern, album_pattern, duplicates, gi,
                 answer, merged, mskipped, quit_requested, lastCall, ncalls,
                 okCalls, declined, typed, quitSeen, lastSummary, noMatch>>

ValidAnswers == {<<"y">>, <<"n">>, <<>>, <<"q">>}

\* prompt_merge returning the stripped line itself, the empty line included
PromptLine_rawAnswer ==
  /\ pc = "prompt"
  /\ \E line \in InputPool :
       LET a == lower(strip(line))
       IN IF a \in ValidAnswers
          THEN /\ answer' = a
               /\ pc' = "answered"
               /\ typed' = line
               /\ quitSeen' = (quitSeen \/ a = <<"q">>)
               /\ declined' = (IF a \in {<<"n">>, <<>>} THEN declined + 1 ELSE declined)
               /\ hinted' = FALSE
          ELSE /\ hinted' = TRUE
               /\ UNCHANGED <<answer, pc, typed, quitSeen, declined>>
  /\ UNCHANGED <<sec, nsections, title_pattern, album_pattern, duplicates, gi,
                 primary, others, merged, mskipped, quit_requested, lastCall,
                 ncalls, groupCalls, okCalls, npresented, trackFailSeen,
                 lastSummary, noMatch>>

\* one pass of prompt_merge's while loop on a line read from the operator
PromptLine ==
  /\ pc = "prompt"
  /\ \E line \in InputPool :
       LET a == lower(strip(line))
       IN IF a \in ValidAnswers
          THEN /\ answer' = (IF a # <<>> THEN a ELSE <<"n">>)
               /\ pc' = "answered"
               /\ typed' = line
               /\ quitSeen' = (quitSeen \/ a = <<"q">>)
               /\ declined' = (IF a \in {<<"n">>, <<>>} THEN declined + 1 ELSE declined)
               /\ hinted' = FALSE
          ELSE /\ hinted' = TRUE
               /\ UNCHANGED <<answer, pc, typed, quitSeen, declined>>
  /\ UNCHANGED <<sec, nsections, title_pattern, album_pattern, duplicates, gi,
                 primary, others, merged, mskipped, quit_requested, lastCall,
                 ncalls, groupCalls, okCalls, npresented, trackFailSeen,
                 lastSummary, noMatch>>

\* input() raises EOFError
PromptEOF ==
  /\ pc = "prompt"
  /\ answer' = <<"q">>
  /\ pc' = "answered"
  /\ typed' = EndOfInput
  /\ quitSeen' = TRUE
  /\ hinted' = FALSE
  /\ UNCHANGED <<sec, nsections, title_pattern, album_pattern, duplicates, gi,
                 primary, others, merged, mskipped, quit_requested,
                 lastCall, ncalls, groupCalls, okCalls, declined, npresented,
                 trackFailSeen, lastSummary, noMatch>>

\* the for loop over duplicates takes its next group, or ends
NextGroup ==
  /\ typed' = <<>>
  /\ IF gi < Len(duplicates)
     THEN gi' = gi + 1 /\ pc' = "group"
     ELSE gi' = gi /\ pc' = "summary"

\* if answer == "q": quit_requested = True; break
Quit ==
  /\ pc = "answered"
  /\ answer = <<"q">>
  /\ quit_requested' = TRUE
  /\ pc' = "summary"
  /\ typed' = <<>>
  /\ UNCHANGED <<sec, nsections, title_pattern, album_pattern, duplicates, gi,
                 primary, others, answer, merged, mskipped, hinted, lastCall,
                 ncalls, groupCalls, okCalls, declined, npresented, quitSeen,
                 trackFailSeen, lastSummary, noMatch>>

\* MergeAnswer with the test of the answer lost: every answer merges
MergeAnswer_anyAnswer(ok) ==
  /\ lastCall' = [target |-> primary.ratingKey, keys |-> ratingKeys(others),
                  ok |-> ok]
  /\ ncalls' = ncalls + 1
  /\ groupCalls' = groupCalls + 1
  /\ okCalls' = (IF ok THEN okCalls + 1 ELSE okCalls)
  /\ merged' = (IF ok THEN merged + 1 ELSE merged)
  /\ NextGroup

\* MergeAnswer with the try/except lost: a failing merge ends the run
MergeAnswer_uncaught(ok) ==
  /\ answer = <<"y">>
  /\ lastCall' = [target |-> primary.ratingKey, keys |-> ratingKeys(others),
                  ok |-> ok]
  /\ ncalls' = ncalls + 1
  /\ groupCalls' = groupCalls + 1
  /\ okCalls' = (IF ok THEN okCalls + 1 ELSE okCalls)
  /\ merged' = (IF ok THEN merged + 1 ELSE merged)
  /\ IF ok THEN NextGroup ELSE pc' = "crashed" /\ gi' = gi /\ typed' = typed

\* the remote call primary.merge(keys) returns or raises
MergeAnswer(ok) ==
  /\ answer = <<"y">>
  /\ lastCall' = [target |-> primary.ratingKey, keys |-> ratingKeys(others),
                  ok |-> ok]
  /\ ncalls' = ncalls + 1
  /\ groupCalls' = groupCalls + 1
  /\ okCalls' = (IF ok THEN okCalls + 1 ELSE okCalls)
  /\ merged' = (IF ok THEN merged + 1 ELSE merged)
  /\ NextGroup

\* elif answer == "y": try: primary.merge(...); merged += 1; except: print
Merge ==
  /\ pc = "answered"
  /\ \E ok \in BOOLEAN : MergeAnswer(ok)
  /\ UNCHANGED <<sec, nsections, title_pattern, album_pattern, duplicates,
                 primary, others, answer, mskipped, quit_requested, hinted,
                 declined, npresented, quitSeen, trackFailSeen, lastSummary,
                 noMatch>>

\* Skip counting the declined group as merged
Skip_countsMerged ==
  /\ pc = "answered"
  /\ answer # <<"q">>
  /\ answer # <<"y">>
  /\ merged' = merged + 1
  /\ NextGroup
  /\ UNCHANGED <<sec, nsections, title_pattern, album_pattern, duplicates,
                 primary, others, answer, mskipped, quit_requested, hinted,
                 lastCall, ncalls, groupCalls, okCalls, declined, npresented,
                 quitSeen, trackFailSeen, lastSummary, noMatch>>

\* else: skipped += 1
Skip ==
  /\ pc = "answered"
  /\ answer # <<"q">>
  /\ answer # <<"y">>
  /\ mskipped' = mskipped + 1
  /\ NextGroup
  /\ UNCHANGED <<sec, nsections, title_pattern, album_pattern, duplicates,
                 primary, others, answer, merged, quit_requested, hinted,
                 lastCall, ncalls, groupCalls, okCalls, declined, npresented,
                 quitSeen, trackFailSeen, lastSummary, noMatch>>

\* Summary with the break on quit_requested lost
Summary_noBreak ==
  /\ pc = "summary"
  /\ lastSummary' = [merged |-> merged, skipped |-> mskipped]
  /\ pc' = "section" /\ sec' = sec + 1
  /\ UNCHANGED <<nsections, title_pattern, album_pattern, mergeVars, lastCall,
                 ncalls, groupCalls, okCalls, declined, npresented, typed,
                 quitSeen, trackFailSeen, noMatch>>

\* print Merged/Skipped; if quit_requested: break
Summary ==
  /\ pc = "summary"
  /\ lastSummary' = [merged |-> merged, skipped |-> mskipped]
  /\ IF quit_requested
     THEN pc' = "exit" /\ sec' = sec
     ELSE pc' = "section" /\ sec' = sec + 1
  /\ UNCHANGED <<nsections, title_pattern, album_pattern, mergeVars, lastCall,
                 ncalls, groupCalls, okCalls, declined, npresented, typed,
                 quitSeen, trackFailSeen, noMatch>>

MergeStep ==
  \/ StartSection
  \/ ListingFails
  \/ MergeExit
  \/ PresentGroup
  \/ PromptLine
  \/ PromptEOF
  \/ Quit
  \/ Merge
  \/ Skip
  \/ Summary

MergeNext == MergeStep /\ UNCHANGED <<callVars, syncVars, syncEnv>>

SpecMerge == MergeInit /\ [][MergeNext]_vars


(***************************************************************************)
(* The merge run: claims.                                                  *)
(***************************************************************************)
\* the operator's line, as the prompt reads it, is an affirmative answer
Affirmative(line) == line # EndOfInput /\ lower(strip(line)) = <<"y">>

\* C1: a remote merge call is issued only in the step that handles the
\* affirmative answer to the prompt of the group at hand, at most once for
\* that group (the step leaves the group, failed or not), with the group's
\* primary as target and exactly the others' ratingKeys, in their order, as
\* argument; steps handling any other answer issue no call.
C1_MergeOnlyOnYes ==
  [][ /\ (ncalls' > ncalls =>
            /\ pc = "answered"
            /\ Affirmative(typed)
            /\ groupCalls = 0
            /\ ncalls' = ncalls + 1
            /\ groupCalls' = 1
            /\ pc' \in {"group", "summary"}
            /\ (pc' = "group" => gi' = gi + 1)
            /\ LET cp == choose_primary(duplicates[gi])
               IN /\ ~cp.raised
                  /\ lastCall'.target = cp.primary.ratingKey
                  /\ lastCall'.keys = ratingKeys(cp.others))
      /\ (pc = "answered" /\ ~Affirmative(typed) =>
            ncalls' = ncalls /\ lastCall' = lastCall)
      /\ (pc # "answered" /\ pc # "section" =>
            ncalls' = ncalls /\ lastCall' = lastCall)
    ]_vars

\* C1 witness: a merge was issued for a group of three, folding two others
\* into the primary.
C1_Witness ==
  /\ groupCalls = 1
  /\ lastCall.ok
  /\ Len(lastCall.keys) = 2
  /\ lastCall.target \notin {lastCall.keys[1], lastCall.keys[2]}

\* C2: once the operator has answered q (or input has ended), no group is
\* presented, no merge is issued, no section is started, and the run only
\* prints the section's summary and exits; the answer itself issues no
\* remote call and leaves the calls and the merged counter as they were.
C2_QuitStopsEverything ==
  [][ /\ (quitSeen =>
            /\ npresented' = npresented
            /\ ncalls' = ncalls
            /\ lastCall' = lastCall
            /\ okCalls' = okCalls
            /\ merged' = merged
            /\ sec' = sec
            /\ gi' = gi
            /\ pc' \in {"summary", "exit"})
      /\ (quitSeen' /\ ~quitSeen =>
            /\ ncalls' = ncalls
            /\ lastCall' = lastCall
            /\ okCalls' = okCalls
            /\ merged' = merged)
    ]_vars

\* C2 witness: the run has exited on a quit at the first of two groups of a
\* section that was not the last.
C2_Witness ==
  /\ quitSeen
  /\ pc = "exit"
  /\ sec < nsections
  /\ gi < Len(duplicates)
  /\ lastSummary = [merged |-> 0, skipped |-> 0]

\* C3: the step in which the remote merge call fails leaves the merged
\* counter alone and goes on to the next group of the section or, after the
\* last group, to the section's summary, from which (no quit having been
\* asked) the next section is taken.
C3_MergeFailureContinues ==
  [][ /\ (ncalls' > ncalls /\ ~lastCall'.ok =>
            /\ merged' = merged
            /\ okCalls' = okCalls
            /\ mskipped' = mskipped
            /\ quit_requested' = quit_requested
            /\ IF gi < Len(duplicates)
               THEN pc' = "group" /\ gi' = gi + 1
               ELSE pc' = "summary")
      /\ (pc = "summary" /\ ~quitSeen =>
            pc' = "section" /\ sec' = sec + 1)
    ]_vars

\* C3 witness: the second group of a section is at its prompt after the
\* merge of the first one failed.
C3_Witness ==
  /\ pc = "prompt"
  /\ gi = 2
  /\ ncalls = 1
  /\ ~lastCall.ok
  /\ merged = 0
  /\ npresented = 2

\* the group with a failing track listing counted as no tracks
zeroed(albums) ==
  [i \in 1..Len(albums) |->
     IF albums[i].tracksFail
     THEN [albums[i] EXCEPT !.ntracks = 0, !.tracksFail = FALSE]
     ELSE albums[i]]

\* C5: a group is always presented, also when the track listing of one of
\* its albums fails: that album counts as having 0 tracks in the choice of
\* the primary, stays in the group, and the run is not aborted.
C5_TrackFailureTolerated ==
  [][ pc = "group" =>
        /\ pc' = "prompt"
        /\ primary'.ratingKey = choose_primary(zeroed(duplicates[gi])).primary.ratingKey
        /\ ratingKeys(others') = ratingKeys(choose_primary(zeroed(duplicates[gi])).others)
    ]_vars


\* C14: the summary of a section reports as merged the merge calls that
\* succeeded in the section and as skipped the groups the operator declined
\* with n or an empty line; a group whose merge call failed and the group
\* on which the operator quit are in neither, so the two never add up to
\* more than the groups presented: every group presented was merged,
\* declined, failed to merge, or is the one the operator quit on.
C14_SummaryCounts ==
  [][(run = 0 /\ pc = "summary") =>
       /\ lastSummary' = [merged |-> okCalls, skipped |-> declined]
       /\ merged = okCalls
       /\ mskipped = declined
       /\ okCalls + declined <= npresented
       /\ okCalls + declined + (ncalls - okCalls)
            + (IF quit_requested THEN 1 ELSE 0) = npresented]_vars

\* a section of two groups: one merge call that failed, one group declined;
\* the summary says merged 0, skipped 1
C14_Witness ==
  /\ run = 0
  /\ npresented = 2
  /\ ncalls = 1
  /\ okCalls = 0
  /\ declined = 1
  /\ ~quit_requested
  /\ lastSummary = [merged |-> 0, skipped |-> 1]


\* C18: at the prompt, a step either re-prompts (the hint is printed, no
\* decision, no merge call and no counter moves) or returns exactly one of
\* y, n, q; it returns only on end of input or on a line that strips and
\* lowers to y, n, q or nothing; the empty line gives n, end of input q
C18_PromptDecides ==
  [][(run = 0 /\ pc = "prompt") =>
       \/ /\ pc' = "prompt"
          /\ hinted'
          /\ UNCHANGED <<answer, merged, mskipped, quit_requested, ncalls,
                         okCalls, declined, npresented, gi, lastCall>>
       \/ /\ pc' = "answered"
          /\ answer' \in {<<"y">>, <<"n">>, <<"q">>}
          /\ UNCHANGED <<merged, mskipped, quit_requested, ncalls, gi>>
          /\ IF typed' = EndOfInput
             THEN answer' = <<"q">>
             ELSE LET a == lower(strip(typed'))
                  IN /\ a \in {<<"y">>, <<"n">>, <<"q">>, <<>>}
                     /\ answer' = (IF a = <<>> THEN <<"n">> ELSE a)]_vars

\* a line of one blank was read at the prompt and the decision is n
C18_Witness ==
  /\ run = 0
  /\ pc = "answered"
  /\ typed = <<" ">>
  /\ answer = <<"n">>
  /\ declined = 1


(***************************************************************************)
(* choose_primary on its own: one call on a list of albums.                *)
(***************************************************************************)
\* the lists of 1..MaxKey albums, in every order; album 1 may be the one
\* whose track listing raises
AlbumLists ==
  {[i \in 1..Len(ks) |-> Album(ks[i], <<"a">>, <<"x">>, nt[ks[i]], f = ks[i])] :
     ks \in UNION {[1..n -> 1..MaxKey] : n \in 1..MaxKey},
     nt \in [1..MaxKey -> 0..MaxTracks],
     f \in 0..1}

PrimaryInit ==
  /\ pc = "call"
  /\ sec = 0
  /\ nsections = 0
  /\ title_pattern = <<>>
  /\ album_pattern = <<>>
  /\ MergeIdle
  /\ SyncIdle
  /\ in_albums \in AlbumLists
  /\ split = NoSplit
  /\ in_artists = <<>>
  /\ found = <<>>
  /\ ProbeIdle

CallChoosePrimary ==
  /\ pc = "call"
  /\ split' = choose_primary(in_albums)
  /\ pc' = "returned"
  /\ UNCHANGED <<sec, nsections, title_pattern, album_pattern, mergeVars,
                 mergeEnv, in_albums, in_artists, found, syncVars, syncEnv,
                 in_part, birth, in_probe, probe>>

PrimaryNext == CallChoosePrimary

SpecPrimary == PrimaryInit /\ [][PrimaryNext]_vars

\* how often x occurs in the sequence s
Count(s, x) == Cardinality({i \in 1..Len(s) : s[i] = x})

Perms(n) == {p \in [1..n -> 1..n] : \A i, j \in 1..n : p[i] = p[j] => i = j}

\* C9: when every album's track listing answers, choose_primary returns a
\* primary with the highest track count and, among those, the smallest
\* ratingKey; the others ascend by (-track count, ratingKey); primary and
\* others together hold each album as often as the input; and every
\* reordering of the input gives the same result.
C9_ChoosePrimary ==
  (pc = "returned" /\ \A i \in 1..Len(in_albums) : ~in_albums[i].tracksFail) =>
    LET out == <<split.primary>> \o split.others
    IN /\ ~split.raised
       /\ \A i \in 1..Len(in_albums) :
            \/ in_albums[i].ntracks < split.primary.ntracks
            \/ /\ in_albums[i].ntracks = split.primary.ntracks
               /\ in_albums[i].ratingKey >= split.primary.ratingKey
       /\ \A i, j \in 1..Len(out) :
            i < j => \/ out[i].ntracks > out[j].ntracks
                     \/ /\ out[i].ntracks = out[j].ntracks
                        /\ out[i].ratingKey <= out[j].ratingKey
       /\ Len(out) = Len(in_albums)
       /\ \A i \in 1..Len(in_albums) : Count(out, in_albums[i]) = Count(in_albums, in_albums[i])
       /\ \A p \in Perms(Len(in_albums)) :
            choose_primary([i \in 1..Len(in_albums) |-> in_albums[p[i]]]) = split

\* C9 witness: track counts 1, 2, 2 under ratingKeys 2, 3, 1: the primary is
\* album 1 (2 tracks, the smaller key), the others are 3 and then 2.
C9_Witness ==
  /\ pc = "returned"
  /\ ratingKeys(in_albums) = <<2, 3, 1>>
  /\ [i \in 1..3 |-> in_albums[i].ntracks] = <<1, 2, 2>>
  /\ split.primary.ratingKey = 1
  /\ ratingKeys(split.others) = <<3, 2>>


(***************************************************************************)
(* find_duplicates on its own: one call on a section.                      *)
(***************************************************************************)
AlbumArtists == {<<"a">>, <<"A">>}
AlbumTitles == {<<"x">>, <<"X">>, <<"y">>}

\* Sections of two artists, "a" and "b", listing the albums 1..n in turn: the
\* first p under "a", the rest under "b"; album 1 may be listed once more
\* (r = 1), under "b" as well.  Each album has its own parentTitle and title.
SectionListings ==
  UNION {
    {<<[title |-> <<"a">>,
        albums |-> [i \in 1..p |-> Album(i, pt[i], t[i], 1, FALSE)]],
       [title |-> <<"b">>,
        albums |-> [i \in 1..(n - p) |-> Album(p + i, pt[p + i], t[p + i], 1, FALSE)]
                   \o (IF r = 0 THEN <<>>
                       ELSE <<Album(r, pt[r], t[r], 1, FALSE)>>)]>> :
       pt \in [1..n -> AlbumArtists], t \in [1..n -> AlbumTitles],
       p \in 0..n, r \in 0..(IF n > 0 THEN 1 ELSE 0)} :
    n \in 0..MaxKey}

DupInit ==
  /\ pc = "call"
  /\ sec = 0
  /\ nsections = 0
  /\ \E a \in ArgPool : title_pattern = a[1] /\ album_pattern = a[2]
  /\ MergeIdle
  /\ SyncIdle
  /\ in_albums = <<>>
  /\ split = NoSplit
  /\ in_artists \in SectionListings
  /\ found = <<>>
  /\ ProbeIdle

CallFindDuplicates ==
  /\ pc = "call"
  /\ found' = find_duplicates(in_artists, title_pattern, album_pattern)
  /\ pc' = "returned"
  /\ UNCHANGED <<sec, nsections, title_pattern, album_pattern, mergeVars,
                 mergeEnv, in_albums, split, in_artists, syncVars, syncEnv,
                 in_part, birth, in_probe, probe>>

DupNext == CallFindDuplicates

SpecDup == DupInit /\ [][DupNext]_vars

\* the listed albums that pass the --title and --album filters, in the order
\* of the listing (artist by artist, album by album)
RECURSIVE Passing(_)
Passing(as) ==
  IF as = <<>> THEN <<>>
  ELSE (IF title_pattern = <<>> \/ match_pattern(Head(as).title, title_pattern)
        THEN SelectSeq(Head(as).albums,
                       LAMBDA b : album_pattern = <<>>
                                  \/ match_pattern(b.title, album_pattern))
        ELSE <<>>)
       \o Passing(Tail(as))

\* the key of the claim: both titles in lower case
NormKey(b) == <<lower(b.parentTitle), lower(b.title)>>

\* where the key k is first met in the sequence s
FirstAt(s, k) == CHOOSE i \in 1..Len(s) : NormKey(s[i]) = k /\ \A j \in 1..(i - 1) : NormKey(s[j]) # k

\* C10: find_duplicates returns groups of two or more; a group is exactly
\* the albums passing the filters that share its key (both titles in lower
\* case), in the order of the listing, so that albums differing only in case
\* are together and no two groups share a key; an album alone under its key
\* is in no group, every other passing album is in one; and the groups come
\* in the order in which their keys are first met.
C10_FindDuplicates ==
  pc = "returned" =>
    LET passing == Passing(in_artists)
        same(k) == SelectSeq(passing, LAMBDA b : NormKey(b) = k)
    IN /\ \A g \in 1..Len(found) :
            /\ Len(found[g]) >= 2
            /\ found[g] = same(NormKey(found[g][1]))
       /\ \A g, h \in 1..Len(found) :
            g < h => /\ NormKey(found[g][1]) # NormKey(found[h][1])
                     /\ FirstAt(passing, NormKey(found[g][1]))
                          < FirstAt(passing, NormKey(found[h][1]))
       /\ \A i \in 1..Len(passing) :
            (Len(same(NormKey(passing[i]))) >= 2)
              <=> (\E g \in 1..Len(found) : \E j \in 1..Len(found[g]) :
                     found[g][j] = passing[i])

\* C10 witness: a group of two albums whose titles differ only in case was
\* returned, behind an earlier group, while a third key has a single album.
C10_Witness ==
  /\ pc = "returned"
  /\ Len(found) = 1
  /\ Len(found[1]) = 2
  /\ found[1][1].title # found[1][2].title
  /\ found[1][1].parentTitle # found[1][2].parentTitle
  /\ found[1][1].ratingKey # found[1][2].ratingKey
  /\ Len(Passing(in_artists)) = 3

\* C15: every group find_duplicates returns is split by choose_primary
\* into a primary and a non-empty list of others whose identifiers are
\* pairwise different and different from the primary's, also when an album
\* is listed under more than one artist of the section.
C15_GroupsAreDistinct ==
  pc = "returned" =>
    \A g \in 1..Len(found) :
      LET s == choose_primary(found[g])
          keys == ratingKeys(s.others)
      IN /\ ~s.raised
         /\ keys # <<>>
         /\ \A i \in 1..Len(keys) : keys[i] # s.primary.ratingKey
         /\ \A i, j \in 1..Len(keys) : keys[i] = keys[j] => i = j

\* ---------------------------------------------------------------------
\* sync_dates.py: the date reconciliation tool
\* ---------------------------------------------------------------------

SecondsPerDay == 86400
\* datetime.fromtimestamp(ts).date(), in a time zone whose offset is zero:
\* the calendar day the second ts falls on, counted from the epoch
ts_to_date_exact(ts) == ts
ts_to_date(ts) == ts \div SecondsPerDay

STATX_BTIME == 2048   \* _STATX_BTIME = 0x800

\* x & STATX_BTIME is not zero
HasBtimeBit_anyMask(x) == x # 0
HasBtimeBit(x) == (x \div STATX_BTIME) % 2 = 1

Min2(a, b) == IF a <= b THEN a ELSE b

\* what the file system answers for one path: whether the path exists, what
\* the statx syscall returns, the mask and the birth time it fills in, and
\* the modification time
Part(file, exists, ret, mask, btime, mtime) ==
  [file |-> file, exists |-> exists, ret |-> ret, stx_mask |-> mask,
   btime |-> btime, mtime |-> mtime]

\* file_birthtime(part.file): os.path.getmtime raises when the path is gone
file_birthtime(part) ==
  IF ~part.exists
  THEN [raised |-> TRUE, time |-> NoTime]
  ELSE IF part.ret = 0 /\ HasBtimeBit(part.stx_mask) /\ part.btime # 0
       THEN [raised |-> FALSE, time |-> Min2(part.btime, part.mtime)]
       ELSE [raised |-> FALSE, time |-> part.mtime]

\* str.startswith
startswith(s, r) == Len(r) <= Len(s) /\ SubSeq(s, 1, Len(r)) = r

\* media_roots and not any(part.file.startswith(r) for r in media_roots)
outside_roots_never(file, roots) == FALSE
outside_roots(file, roots) ==
  roots # <<>> /\ ~(\E i \in 1..Len(roots) : startswith(file, roots[i]))

\* the try block of the loop over item.tracks(): the birth times appended
\* to mtimes. A track is the sequence of its parts; next(track.iterParts())
\* raises for a track without parts or when the call fails (i \in down), and
\* the except clause drops the track.
RECURSIVE track_mtimes(_, _, _, _)
track_mtimes(tracks, roots, down, i) ==
  IF i > Len(tracks) THEN <<>>
  ELSE LET rest == track_mtimes(tracks, roots, down, i + 1)
           track == tracks[i]
       IN IF i \in down \/ track = <<>> THEN rest
          ELSE IF track[1].file = <<>> THEN rest
          ELSE IF outside_roots(track[1].file, roots) THEN rest
          ELSE IF file_birthtime(track[1]).raised THEN rest
          ELSE <<file_birthtime(track[1]).time>> \o rest

min_first(ts) == ts[1]
RECURSIVE min(_)
min(ts) == IF Len(ts) = 1 THEN ts[1] ELSE Min2(ts[1], min(Tail(ts)))

\* get_file_mtime(item, media_roots). media is what the catalog holds for
\* the item: the tracks of an album, the parts of anything else. fails says
\* which remote calls do not answer: the listing itself (item.tracks(), or
\* item.iterParts()), and the tracks whose parts cannot be listed.
get_file_mtime(type, media, roots, fails) ==
  IF type = "album"
  THEN IF fails.listing
       THEN [raised |-> TRUE, time |-> NoTime, detail |-> NoDetail]
       ELSE LET mtimes == track_mtimes(media, roots, fails.down, 1)
            IN IF mtimes = <<>>
               THEN [raised |-> FALSE, time |-> NoTime,
                     detail |-> Detail("no accessible track files", 0, <<>>)]
               ELSE [raised |-> FALSE, time |-> min(mtimes),
                     detail |-> Detail("tracks scanned", Len(mtimes), <<>>)]
  ELSE IF fails.listing \/ media = <<>>
       THEN [raised |-> TRUE, time |-> NoTime, detail |-> NoDetail]
       ELSE LET part == media[1]
            IN IF part.file = <<>>
               THEN [raised |-> FALSE, time |-> NoTime,
                     detail |-> Detail("no file", 0, <<>>)]
               ELSE IF outside_roots(part.file, roots)
               THEN [raised |-> FALSE, time |-> NoTime,
                     detail |-> Detail("outside media roots", 0, part.file)]
               ELSE IF file_birthtime(part).raised
               THEN [raised |-> TRUE, time |-> NoTime, detail |-> NoDetail]
               ELSE [raised |-> FALSE, time |-> file_birthtime(part).time,
                     detail |-> Detail("file", 0, part.file)]

\* ---- what a run is given ----

InPath == <<"/", "m", "/", "f">>
OutPath == <<"/", "x", "/", "f">>
MediaRoot == <<"/", "m">>

\* what a reconciliation run is started with: --dry-run, --limit (0: not
\* given), --title, --album and MEDIA_ROOTS
SyncArgs(d, l, t, a, r) ==
  [dry_run |-> d, limit |-> l, title |-> t, album |-> a, media_roots |-> r]
\* with or without --dry-run: every limit, or one media root; live and
\* unlimited: a title nothing matches, or an album pattern
SyncArgPool ==
  {SyncArgs(d, l, <<>>, <<>>, <<>>) : d \in BOOLEAN, l \in 0..MaxLimit}
    \cup {SyncArgs(d, 0, <<>>, <<>>, <<MediaRoot>>) : d \in BOOLEAN}
    \cup {SyncArgs(FALSE, 0, <<"z">>, <<>>, <<>>),
          SyncArgs(FALSE, 0, <<>>, <<"x">>, <<>>)}

\* the titles section.all() returns
TopLists == {<<>>, <<(<<"a">>)>>, <<(<<"a">>), (<<"b">>)>>}

SectionTypes == {"show", "artist", "movie"}
\* the type of the items iter_items yields for a section
ItemType(t) == IF t = "show" THEN "episode"
               ELSE IF t = "artist" THEN "album" ELSE "movie"

Times == {SecondsPerDay - 1, SecondsPerDay}
AddedTimes == {NoTime, 0, SecondsPerDay}

\* a file under the media root whose birth time is reported
FileAt(t) == Part(InPath, TRUE, 0, STATX_BTIME, t, t)
PartPool ==
  {FileAt(t) : t \in Times}
    \cup {Part(OutPath, TRUE, 0, STATX_BTIME, 0, 0),
          Part(<<>>, FALSE, 0 - 1, 0, 0, 0),
          Part(InPath, FALSE, 0 - 1, 0, 0, 0)}
\* the parts of an item that is no album
PartsPool == {<<>>} \cup {<<p>> : p \in PartPool}
\* the tracks of an album: a file of either day, a file outside the media
\* root
TrackPool ==
  {<<Part(OutPath, TRUE, 0, STATX_BTIME, 0, 0)>>}
    \cup {<<FileAt(t)>> : t \in Times}

\* what the catalog can hold for an item of the given type
MediaPool(type) ==
  IF type = "album" THEN UNION {[1..n -> TrackPool] : n \in 0..MaxTracks}
  ELSE PartsPool

\* the remote calls of get_file_mtime that can fail for the media: the
\* listing, or the parts of one track of an album
FailPool(type, media) ==
  {[listing |-> l, down |-> {}] : l \in BOOLEAN}
    \cup {[listing |-> FALSE, down |-> {i}] :
            i \in IF type = "album" THEN 1..Len(media) ELSE {}}

\* the catalog is fixed for the run (and read again by a second run)
Pinned == DOMAIN files # {}

\* ---- sync_dates.main ----

genVars == <<sectype, anyTop, seen>>
syncArgs == <<dry_run, limit, media_roots>>
counters == <<updated, skipped, errors, done>>
catalog == <<files, added, reconciled, run>>

SyncInit ==
  /\ pc = "section"
  /\ sec = 1
  /\ nsections = NumSections
  /\ \E a \in SyncArgPool :
       /\ dry_run = a.dry_run
       /\ limit = a.limit
       /\ title_pattern = a.title
       /\ album_pattern = a.album
       /\ media_roots = a.media_roots
  /\ MergeIdle
  /\ CallIdle
  /\ sectype = ""
  /\ anyTop = FALSE
  /\ seen = {}
  /\ item = NoItem
  /\ file_mtime = NoTime
  /\ detail = NoDetail
  /\ updated = 0
  /\ skipped = 0
  /\ errors = 0
  /\ done = FALSE
  /\ wrote = NoWrite
  /\ examined = 0
  /\ summary = NoCounts
  /\ run = 1
  /\ files = <<>>
  /\ added = <<>>
  /\ reconciled = <<>>
  /\ exc = ""
  /\ reported = 0
  /\ nwrites = 0

\* for section in sections: iter_items runs up to its first loop
\* (section.all() answers; the --title filter)
SyncStartSection ==
  /\ pc = "section"
  /\ sec <= nsections
  /\ \E t \in SectionTypes, tops \in TopLists :
       LET top_level ==
             IF title_pattern # <<>>
             THEN SelectSeq(tops, LAMBDA i : match_pattern(i, title_pattern))
             ELSE tops
       IN /\ sectype' = t
          /\ anyTop' = (top_level # <<>>)
  /\ seen' = {}
  /\ pc' = "next"
  /\ wrote' = NoWrite
  /\ exc' = ""
  /\ UNCHANGED <<sec, syncArgs, item, file_mtime, detail, counters, examined,
                 summary, catalog, nwrites, reported>>

\* section.all() raises inside iter_items: nothing in main catches it
SyncListingFails ==
  /\ pc = "section"
  /\ sec <= nsections
  /\ pc' = "crashed"
  /\ exc' = "all"
  /\ wrote' = NoWrite
  /\ UNCHANGED <<sec, syncArgs, genVars, item, file_mtime, detail, counters,
                 examined, summary, catalog, nwrites, reported>>

\* show.episodes() or artist.albums() raises when the loop of main asks
\* iter_items for its next item: the for statement is outside the try
GenRaises ==
  /\ pc = "next"
  /\ anyTop
  /\ sectype \in {"show", "artist"}
  /\ pc' = "crashed"
  /\ exc' = IF sectype = "show" THEN "episodes" ELSE "albums"
  /\ wrote' = NoWrite
  /\ detail' = NoDetail
  /\ UNCHANGED <<sec, syncArgs, genVars, item, file_mtime, counters,
                 examined, summary, catalog, nwrites, reported>>

\* iter_items yields its next item: an episode of a show, an album not
\* seen yet whose title passes --album, or a top-level item
Yield ==
  /\ pc = "next"
  /\ anyTop
  /\ examined < MaxExamined
  /\ \E k \in 1..MaxItems :
       /\ Pinned => files[k].type = ItemType(sectype)
       /\ sectype = "artist" =>
            /\ k \notin seen
            /\ album_pattern # <<>> =>
                 \E title \in AlbumTitles :
                   match_pattern(title, album_pattern)
       /\ \E a \in IF Pinned THEN {added[k]} ELSE AddedTimes :
            item' = [ratingKey |-> k, type |-> ItemType(sectype),
                     addedAt |-> a]
       /\ seen' = IF sectype = "artist" THEN seen \cup {k} ELSE seen
  /\ examined' = examined + 1
  /\ pc' = "body"
  /\ wrote' = NoWrite
  /\ exc' = ""
  /\ file_mtime' = NoTime
  /\ detail' = NoDetail
  /\ UNCHANGED <<sec, syncArgs, sectype, anyTop, counters,
                 summary, catalog, nwrites, reported>>

\* GenEnd with an exhausted section ending the run
GenEnd_stops ==
  /\ pc = "next"
  /\ pc' = "summary"
  /\ wrote' = NoWrite
  /\ exc' = ""
  /\ UNCHANGED <<sec, syncArgs, genVars, item, file_mtime, detail, counters,
                 examined, summary, catalog, nwrites, reported>>

\* iter_items is exhausted; if done is false here, so the next section
GenEnd ==
  /\ pc = "next"
  /\ sec' = sec + 1
  /\ pc' = "section"
  /\ sectype' = ""
  /\ anyTop' = FALSE
  /\ seen' = {}
  /\ wrote' = NoWrite
  /\ exc' = ""
  /\ file_mtime' = NoTime
  /\ detail' = NoDetail
  /\ UNCHANGED <<syncArgs, item, counters, examined, summary,
                 catalog, nwrites, reported>>

\* label = item_label(item) raises (a field of the item has to be fetched and
\* the server does not answer): the call is before the try
LabelFails ==
  /\ pc = "body"
  /\ pc' = "crashed"
  /\ exc' = "item_label"
  /\ UNCHANGED <<sec, syncArgs, genVars, item, file_mtime, detail, counters,
                 wrote, examined, summary, catalog, nwrites, reported>>

\* ts_to_date(int(item.addedAt.timestamp())) if item.addedAt else None
current_date_unread(it) == NoTime
current_date(it) ==
  IF it.addedAt # NoTime THEN ts_to_date(it.addedAt) ELSE NoTime

\* if not args.dry_run
issues_write_always(dry) == TRUE
issues_write(dry) == ~dry

\* args.limit and updated >= args.limit
limit_reached_late(lim, upd) == lim # 0 /\ upd > lim
limit_reached(lim, upd) == lim # 0 /\ upd >= lim

\* the examination of item k ends with the catalog holding date d for it
\* (found there, or written)
Settle(k, d) ==
  IF Pinned
  THEN [j \in DOMAIN reconciled \cup {k} |->
          IF j = k THEN d ELSE reconciled[j]]
  ELSE reconciled

\* updated += 1 and the limit check that follows
CountUpdate ==
  /\ updated' = updated + 1
  /\ IF limit_reached(limit, updated')
     THEN done' = TRUE /\ pc' = "summary"
     ELSE done' = done /\ pc' = "next"

\* the try block from "file_date = ts_to_date(file_mtime)" on: the dates
\* are compared, the transition is printed and written; editAddedAt may
\* raise
CompareAndWrite(fm) ==
  LET file_date == ts_to_date(fm)
  IN IF current_date(item) = file_date
     THEN /\ skipped' = skipped + 1
          /\ pc' = "next"
          /\ reconciled' = Settle(item.ratingKey, file_date)
          /\ UNCHANGED <<updated, errors, done, wrote, added, exc,
                         nwrites, reported>>
     ELSE /\ reported' = reported + 1
          /\ IF ~issues_write(dry_run)
             THEN /\ CountUpdate
                  /\ UNCHANGED <<errors, wrote, added, exc, nwrites,
                                 reconciled>>
             ELSE /\ nwrites' = nwrites + 1
                  /\ \E ok \in BOOLEAN :
                       /\ wrote' = [ts |-> fm, ok |-> ok]
                       /\ IF ok
                          THEN /\ added' =
                                    IF Pinned
                                    THEN [added EXCEPT
                                            ![item.ratingKey] = fm]
                                    ELSE added
                               /\ reconciled' =
                                    Settle(item.ratingKey, file_date)
                               /\ CountUpdate
                               /\ UNCHANGED <<errors, exc>>
                          ELSE /\ errors' = errors + 1
                               /\ exc' = "editAddedAt"
                               /\ pc' = "next"
                               /\ UNCHANGED <<updated, done, added,
                                              reconciled>>
          /\ UNCHANGED skipped

\* what get_file_mtime can return for the item: by the media the catalog
\* holds for it and by the calls that fail
Probes(it) ==
  UNION {{get_file_mtime(it.type, m, media_roots, f) :
            f \in FailPool(it.type, m)} :
         m \in IF Pinned THEN {files[it.ratingKey].media}
                        ELSE MediaPool(it.type)}

\* the try block of the loop body, for the item at hand
TryBlock ==
  /\ pc = "body"
  /\ \E r \in Probes(item) :
       IF r.raised
       THEN /\ errors' = errors + 1
            /\ exc' = "get_file_mtime"
            /\ pc' = "next"
            /\ UNCHANGED <<file_mtime, detail, updated, skipped, done,
                           wrote, added, reconciled, nwrites, reported>>
       ELSE /\ file_mtime' = r.time
            /\ detail' = r.detail
            /\ IF r.time = NoTime
               THEN /\ skipped' = skipped + 1
                    /\ pc' = "next"
                    /\ UNCHANGED <<updated, errors, done, wrote, added,
                                   reconciled, exc, nwrites, reported>>
               ELSE CompareAndWrite(r.time)
  /\ item' = NoItem
  /\ UNCHANGED <<sec, syncArgs, genVars, examined, summary, files, run>>

\* the loops are over (or left by the two breaks): the summary line
PrintSummary ==
  /\ \/ pc = "summary"
     \/ pc = "section" /\ sec > nsections
  /\ summary' = [updated |-> updated, skipped |-> skipped, errors |-> errors]
  /\ pc' = "exit"
  /\ exc' = ""
  /\ UNCHANGED <<sec, syncArgs, genVars, item, file_mtime, detail, counters,
                 wrote, examined, catalog, nwrites, reported>>

SyncStep ==
  \/ SyncStartSection
  \/ SyncListingFails
  \/ GenRaises
  \/ Yield
  \/ GenEnd
  \/ LabelFails
  \/ TryBlock
  \/ PrintSummary

SyncNext ==
  /\ run > 0
  /\ SyncStep
  /\ UNCHANGED <<nsections, title_pattern, album_pattern, mergeVars,
                 mergeEnv, callVars>>

SpecSync == SyncInit /\ [][SyncNext]_vars

\* ---- claims about one reconciliation run ----

\* the calls main makes for one item of a section, or to obtain it
ItemCalls ==
  {"episodes", "albums", "item_label", "get_file_mtime", "editAddedAt"}

\* the step took an item through the try block and obtained a file time
Compared == pc = "body" /\ file_mtime' # NoTime

\* C4: whenever a call made for an item raises (listing the episodes or
\* albums it comes from, building its label, probing its files, writing its
\* timestamp), the exception is counted as exactly one error and the run is
\* not aborted, so that the remaining items and sections are processed and
\* the summary is printed.
C4_ItemExceptionsCaught ==
  [][(run > 0 /\ exc' \in ItemCalls)
       => (errors' = errors + 1 /\ pc' # "crashed")]_vars

C7_DryRunNeverWrites ==
  [][run > 0 =>
       /\ dry_run => (wrote' = NoWrite /\ nwrites' = 0 /\ added' = added)
       /\ (Compared /\ (dry_run \/ exc' # "editAddedAt")) =>
            updated' = updated +
              (IF current_date(item) # ts_to_date(file_mtime') THEN 1 ELSE 0)
       /\ ~Compared => updated' = updated]_vars

\* a dry run that ended with two items counted as updated, one as already
\* correct and no write
C7_Witness ==
  /\ run = 1
  /\ dry_run
  /\ pc = "exit"
  /\ updated = 2
  /\ skipped = 1
  /\ reported = 2
  /\ nwrites = 0

\* the recorded added-date of the item is the calendar day of the time t
SameDay(it, t) ==
  it.addedAt # NoTime /\ it.addedAt \div SecondsPerDay = t \div SecondsPerDay

\* C11: for an item whose effective file time is obtained only the calendar
\* dates are compared. Equal dates: the item is counted as skipped and no
\* write is issued. Different dates (or no recorded date) in a live run:
\* exactly one write is issued, its value is the effective file time, and if
\* it succeeds the item is counted as updated (if it fails, as an error).
C11_DatesDecide ==
  [][(run > 0 /\ Compared) =>
       IF SameDay(item, file_mtime')
       THEN /\ skipped' = skipped + 1
            /\ wrote' = NoWrite
            /\ UNCHANGED <<updated, errors, nwrites, reported, added>>
       ELSE ~dry_run =>
              /\ nwrites' = nwrites + 1
              /\ wrote'.ts = file_mtime'
              /\ skipped' = skipped
              /\ IF wrote'.ok
                 THEN updated' = updated + 1 /\ errors' = errors
                 ELSE updated' = updated /\ errors' = errors + 1]_vars

\* the first item of a live run had a file of the last second of day 0; it
\* was counted as already correct without a write, so its recorded time was
\* another second of that day
C11_Witness ==
  /\ run = 1
  /\ ~dry_run
  /\ pc = "next"
  /\ examined = 1
  /\ file_mtime = SecondsPerDay - 1
  /\ skipped = 1
  /\ wrote = NoWrite
  /\ nwrites = 0

\* C19: every item taken from iter_items moves exactly one of updated,
\* skipped, errors by one; no counter ever decreases or is reset; whenever no
\* item is in hand the three add up to the items taken so far; and an item
\* whose editAddedAt raised is counted in errors, not in updated
C19_EveryItemCounted ==
  [][run > 0 =>
       /\ updated' >= updated
       /\ skipped' >= skipped
       /\ errors' >= errors
       /\ pc = "body" =>
            /\ updated' + skipped' + errors' = updated + skipped + errors + 1
            /\ (wrote'.ts # NoTime /\ ~wrote'.ok) =>
                 (errors' = errors + 1 /\ updated' = updated)
       /\ pc # "body" => UNCHANGED <<updated, skipped, errors>>
       /\ pc' # "body" => updated' + skipped' + errors' = examined']_vars

\* ---- the tool run twice over one catalog ----

\* the items of the catalog: a movie with one file, a movie whose part has
\* no file, an album of two tracks whose files are of different days
RerunFiles ==
  {[type |-> "movie", media |-> <<FileAt(SecondsPerDay)>>],
   [type |-> "movie", media |-> <<Part(<<>>, FALSE, 0 - 1, 0, 0, 0)>>],
   [type |-> "album",
    media |-> <<(<<FileAt(SecondsPerDay - 1)>>),
                (<<FileAt(SecondsPerDay)>>)>>]}

\* both runs are started alike: live or dry and unlimited, or live with the
\* largest limit
RerunArgPool ==
  {SyncArgs(d, 0, <<>>, <<>>, <<>>) : d \in BOOLEAN}
    \cup {SyncArgs(FALSE, MaxLimit, <<>>, <<>>, <<>>)}

RerunInit ==
  /\ pc = "section"
  /\ sec = 1
  /\ nsections = 1
  /\ \E a \in RerunArgPool :
       /\ dry_run = a.dry_run
       /\ limit = a.limit
       /\ title_pattern = a.title
       /\ album_pattern = a.album
       /\ media_roots = a.media_roots
  /\ MergeIdle
  /\ CallIdle
  /\ sectype = ""
  /\ anyTop = FALSE
  /\ seen = {}
  /\ item = NoItem
  /\ file_mtime = NoTime
  /\ detail = NoDetail
  /\ updated = 0
  /\ skipped = 0
  /\ errors = 0
  /\ done = FALSE
  /\ wrote = NoWrite
  /\ examined = 0
  /\ summary = NoCounts
  /\ run = 1
  /\ files \in [1..MaxItems -> RerunFiles]
  /\ added \in [1..MaxItems -> {NoTime, SecondsPerDay}]
  /\ reconciled = <<>>
  /\ exc = ""
  /\ reported = 0
  /\ nwrites = 0

\* the tool has ended and is started again with the same arguments: main
\* from its first line, the catalog as the first run left it
Restart ==
  /\ pc = "exit"
  /\ run = 1
  /\ run' = 2
  /\ pc' = "section"
  /\ sec' = 1
  /\ sectype' = ""
  /\ anyTop' = FALSE
  /\ seen' = {}
  /\ item' = NoItem
  /\ file_mtime' = NoTime
  /\ detail' = NoDetail
  /\ updated' = 0
  /\ skipped' = 0
  /\ errors' = 0
  /\ done' = FALSE
  /\ wrote' = NoWrite
  /\ examined' = 0
  /\ summary' = NoCounts
  /\ exc' = ""
  /\ reported' = 0
  /\ nwrites' = 0
  /\ UNCHANGED <<syncArgs, files, added, reconciled>>

RerunNext ==
  /\ \/ SyncStep
     \/ Restart
  /\ UNCHANGED <<nsections, title_pattern, album_pattern, mergeVars,
                 mergeEnv, callVars>>

SpecRerun == RerunInit /\ [][RerunNext]_vars

\* C8 as stated: a second run over unchanged files counts no update and
\* issues no write; every item it examines is counted as already correct.
C8_SecondRunUpdatesNothing ==
  run = 2 => (updated = 0 /\ reported = 0 /\ nwrites = 0 /\ errors = 0)

\* C8, amended: in the second run an item is counted as already correct,
\* with no write, whenever the file date obtained for it is the date its
\* last examination left the catalog with (the first run, or the second
\* before, found that date recorded or wrote it successfully).
C8_SettledItemsStay ==
  [][(run = 2 /\ Compared /\ item.ratingKey \in DOMAIN reconciled
        /\ ts_to_date(file_mtime') = reconciled[item.ratingKey])
       => /\ skipped' = skipped + 1
          /\ UNCHANGED <<updated, errors, reported, nwrites, added>>
          /\ wrote' = NoWrite]_vars

\* a live second run has ended with no update and two items counted as
\* already correct, over a catalog in which every item carries a timestamp
\* the first run wrote
C8_Witness ==
  /\ run = 2
  /\ ~dry_run
  /\ pc = "exit"
  /\ updated = 0
  /\ errors = 0
  /\ skipped = 2
  /\ \A k \in DOMAIN added : added[k] = SecondsPerDay - 1

\* ---------------------------------------------------------------------
\* file_birthtime on its own: one call on one path
\* ---------------------------------------------------------------------

\* stx_mask as the kernel can fill it: nothing, the birth time alone, the
\* basic fields without the birth time, the basic fields with it
StxMasks == {0, STATX_BTIME, STATX_BTIME - 1, 2 * STATX_BTIME - 1}

\* a path whose file exists (statx answers or fails, with any mask and any
\* times), and a path that names nothing (statx fails)
BirthParts ==
  {Part(InPath, TRUE, r, m, b, t) :
     r \in {0, 0 - 1}, m \in StxMasks, b \in 0..MaxTime, t \in 0..MaxTime}
    \cup {Part(InPath, FALSE, 0 - 1, 0, 0, 0)}

BirthInit ==
  /\ pc = "call"
  /\ sec = 0
  /\ nsections = 0
  /\ title_pattern = <<>>
  /\ album_pattern = <<>>
  /\ MergeIdle
  /\ SyncIdle
  /\ in_albums = <<>>
  /\ split = NoSplit
  /\ in_artists = <<>>
  /\ found = <<>>
  /\ in_part \in BirthParts
  /\ birth = NoBirth
  /\ in_probe = NoProbeArgs
  /\ probe = NoProbe

CallFileBirthtime ==
  /\ pc = "call"
  /\ birth' = file_birthtime(in_part)
  /\ pc' = "returned"
  /\ UNCHANGED <<sec, nsections, title_pattern, album_pattern, mergeVars,
                 mergeEnv, in_albums, split, in_artists, found, in_part,
                 in_probe, probe, syncVars, syncEnv>>

BirthNext == CallFileBirthtime

SpecBirth == BirthInit /\ [][BirthNext]_vars

\* C12: for a path whose file exists, file_birthtime returns the smaller of
\* birth time and modification time when statx succeeded, flagged the birth
\* time in stx_mask and reported it non-zero; in every other case it returns
\* the modification time. So the result is never later than the
\* modification time and is the modification time whenever the birth time
\* reported is later.
C12_BirthtimeRule ==
  (pc = "returned" /\ in_part.exists) =>
    LET p == in_part
        flagged == p.stx_mask \in {STATX_BTIME, 2 * STATX_BTIME - 1}
    IN /\ ~birth.raised
       /\ IF p.ret = 0 /\ flagged /\ p.btime # 0
          THEN /\ birth.time \in {p.btime, p.mtime}
               /\ birth.time <= p.btime
               /\ birth.time <= p.mtime
          ELSE birth.time = p.mtime
       /\ birth.time <= p.mtime
       /\ p.btime > p.mtime => birth.time = p.mtime

\* statx succeeded and reported a birth time later than the modification
\* time: the modification time was returned
C12_Witness ==
  /\ pc = "returned"
  /\ in_part.exists
  /\ in_part.ret = 0
  /\ in_part.stx_mask = 2 * STATX_BTIME - 1
  /\ in_part.btime = 2
  /\ in_part.mtime = 1
  /\ birth = [raised |-> FALSE, time |-> 1]

\* ---------------------------------------------------------------------
\* either tool: a run of merge_albums (run = 0) or of sync_dates (run = 1)
\* ---------------------------------------------------------------------

ToolsInit ==
  \/ MergeInit
  \/ SyncInit

ToolsNext ==
  \/ run = 0 /\ MergeNext
  \/ SyncNext

SpecTools == ToolsInit /\ [][ToolsNext]_vars

\* C13: a --title pattern that matches no top-level entity of a section is
\* no error in either tool. merge_albums goes straight to the next section:
\* no group is presented, no merge call issued, no summary printed for it.
\* sync_dates takes no item from the section: no counter moves (errors
\* included), nothing is written, and the next section follows.
C13_NoMatchIsNoError ==
  [][/\ (run = 0 /\ pc = "section" /\ sec <= nsections /\ pc' # "crashed"
           /\ noMatch')
          => /\ sec' = sec + 1
             /\ pc' = "section"
             /\ ncalls' = 0
             /\ npresented' = 0
             /\ lastSummary' = lastSummary
     /\ (run > 0 /\ pc = "section" /\ pc' = "next" /\ title_pattern # <<>>
           /\ ~anyTop')
          => /\ exc' = ""
             /\ UNCHANGED <<sec, counters, examined, nwrites, reported, added>>
     /\ (run > 0 /\ pc = "next" /\ title_pattern # <<>> /\ ~anyTop)
          => /\ sec' = sec + 1
             /\ pc' = "section"
             /\ exc' = ""
             /\ wrote' = NoWrite
             /\ UNCHANGED <<counters, examined, nwrites, reported, added>>
    ]_vars

\* sync_dates is in its second section, whose artists or shows the pattern
\* does not match either; nothing was examined or counted in the first
C13_Witness ==
  /\ run = 1
  /\ title_pattern # <<>>
  /\ sec = 2
  /\ pc = "next"
  /\ ~anyTop
  /\ examined = 0
  /\ errors = 0
  /\ nwrites = 0

\* ---------------------------------------------------------------------
\* get_file_mtime on its own (one call, run = 0), beside the runs of
\* sync_dates that use it
\* ---------------------------------------------------------------------

\* a path in a directory beside the media root whose name begins with the
\* root's
SiblingPath == <<"/", "m", "m", "/", "f">>

\* the parts of a track or of an item
ProbeTracks ==
  PartsPool \cup {<<Part(SiblingPath, TRUE, 0, STATX_BTIME, 0, 0)>>}

\* an album of up to MaxTracks tracks, or the parts of another item; with
\* or without a media root; the listing fails, or any of the tracks do
ProbeArgs ==
  {[type |-> "album", tracks |-> m, parts |-> <<>>, roots |-> r,
    fails |-> f] :
     m \in UNION {[1..n -> ProbeTracks] : n \in 0..MaxTracks},
     r \in {<<>>, <<MediaRoot>>},
     f \in {[listing |-> TRUE, down |-> {}]}
            \cup {[listing |-> FALSE, down |-> d] :
                    d \in SUBSET (1..MaxTracks)}}
    \cup {[type |-> t, tracks |-> <<>>, parts |-> m, roots |-> r,
           fails |-> [listing |-> l, down |-> {}]] :
            t \in {"movie", "episode"}, m \in ProbeTracks,
            r \in {<<>>, <<MediaRoot>>}, l \in BOOLEAN}

ProbeInit ==
  /\ pc = "call"
  /\ sec = 0
  /\ nsections = 0
  /\ title_pattern = <<>>
  /\ album_pattern = <<>>
  /\ MergeIdle
  /\ SyncIdle
  /\ in_albums = <<>>
  /\ split = NoSplit
  /\ in_artists = <<>>
  /\ found = <<>>
  /\ in_part = NoPart
  /\ birth = NoBirth
  /\ in_probe \in ProbeArgs
  /\ probe = NoProbe

CallGetFileMtime ==
  /\ pc = "call"
  /\ probe' = get_file_mtime(in_probe.type,
                             IF in_probe.type = "album"
                             THEN in_probe.tracks ELSE in_probe.parts,
                             in_probe.roots, in_probe.fails)
  /\ pc' = "returned"
  /\ UNCHANGED <<sec, nsections, title_pattern, album_pattern, mergeVars,
                 mergeEnv, in_albums, split, in_artists, found, in_part,
                 birth, in_probe, syncVars, syncEnv>>

ProbeOrSyncInit ==
  \/ ProbeInit
  \/ SyncInit

ProbeOrSyncNext ==
  \/ run = 0 /\ CallGetFileMtime
  \/ SyncNext

SpecProbe == ProbeOrSyncInit /\ [][ProbeOrSyncNext]_vars

\* the file is under one of the roots, or there are no roots
InsideRoots(file, roots) ==
  roots = <<>>
    \/ \E i \in 1..Len(roots) :
         /\ Len(file) >= Len(roots[i])
         /\ \A j \in 1..Len(roots[i]) : file[j] = roots[i][j]

\* the tracks of the album that contribute: their parts could be listed,
\* the first has a file, the file is inside the roots and can be probed
Contributing(a) ==
  {i \in 1..Len(a.tracks) :
     /\ i \notin a.fails.down
     /\ a.tracks[i] # <<>>
     /\ a.tracks[i][1].file # <<>>
     /\ InsideRoots(a.tracks[i][1].file, a.roots)
     /\ a.tracks[i][1].exists}

\* C16: for an album whose tracks can be listed, get_file_mtime returns the
\* smallest file_birthtime among the contributing tracks; the other tracks
\* neither contribute nor make the call fail. If no track contributes it
\* returns no time with the reason "no accessible track files", and main
\* counts the album as skipped without issuing a write.
C16_AlbumMinimum ==
  [][/\ (run = 0 /\ pc = "call" /\ in_probe.type = "album"
           /\ ~in_probe.fails.listing)
          => LET c == Contributing(in_probe)
                 t(i) == file_birthtime(in_probe.tracks[i][1]).time
             IN /\ ~probe'.raised
                /\ IF c = {}
                   THEN /\ probe'.time = NoTime
                        /\ probe'.detail.text = "no accessible track files"
                   ELSE /\ \E i \in c : probe'.time = t(i)
                        /\ \A i \in c : probe'.time <= t(i)
     /\ (run > 0 /\ pc = "body" /\ item.type = "album" /\ exc' = ""
           /\ file_mtime' = NoTime)
          => /\ detail'.text = "no accessible track files"
             /\ skipped' = skipped + 1
             /\ pc' = "next"
             /\ wrote' = NoWrite
             /\ UNCHANGED <<updated, errors, nwrites, reported, added>>
    ]_vars

\* an album of two tracks under one media root: the first track's file is
\* outside the root and older, the second is inside; the second's time was
\* returned
C16_Witness ==
  /\ run = 0
  /\ pc = "returned"
  /\ in_probe.type = "album"
  /\ in_probe.roots = <<MediaRoot>>
  /\ in_probe.fails = NoFails
  /\ Len(in_probe.tracks) = 2
  /\ in_probe.tracks[1] = <<Part(OutPath, TRUE, 0, STATX_BTIME, 0, 0)>>
  /\ in_probe.tracks[2] = <<FileAt(SecondsPerDay)>>
  /\ probe.time = SecondsPerDay
  /\ probe.detail.n = 1

====
